---- MODULE Spec2Model ----
(***************************************************************************)
(* Interval reconciliation engine of uber-analysis (src/src/utils.py,      *)
(* src/src/tripmatch.py).                                                  *)
(*                                                                         *)
(* Time.  Timestamps are the instants 0..MaxTime of a dense time line.     *)
(* A portion interval set whose bounds are such instants is a union of     *)
(* single instants and of open gaps between neighbouring instants, so it   *)
(* is represented exactly by a set of atoms: atom 2*t is the instant t,    *)
(* atom 2*t+1 is the open gap (t, t+1).  Union and difference of portion   *)
(* intervals are then union and difference of atom sets, and P.to_data     *)
(* lists the maximal runs of neighbouring atoms with their bound types.    *)
(***************************************************************************)
EXTENDS Integers, Sequences, FiniteSets, TLC

\* ------------------------------------------------------------------ bounds
MaxTime == 3      \* instants 0..MaxTime
MaxPeriods == 2   \* periods with begin <= end given to the reconciler
MaxRows == 2      \* rows of an input table
MaxCalls == 2     \* main_interval_logic calls made on the same two mappings

\* The number of time columns load_lifetime_trips passes (request, begintrip,
\* dropoff).
NumTimeColumns == 3

Times == 0..MaxTime
Atoms == 0..(2 * MaxTime)
Labels == {"P0", "P1", "P2", "P3"}

\* ------------------------------------------------- portion (interval sets)
\* P.closed, mutated: bounds given in the wrong order are swapped.
P_closed_unordered(lower, upper) ==
    {a \in Atoms : \/ 2 * lower <= a /\ a <= 2 * upper
                   \/ 2 * upper <= a /\ a <= 2 * lower}

\* P.closed(lower, upper): empty when lower > upper.
P_closed(lower, upper) == {a \in Atoms : 2 * lower <= a /\ a <= 2 * upper}

RECURSIVE RunEnd(_, _)
RunEnd(x, a) == IF (a + 1) \in x THEN RunEnd(x, a + 1) ELSE a

\* One atomic interval (left, lower, upper, right) for the run of atoms s..e.
Atomic(s, e) ==
    [left  |-> IF s % 2 = 0 THEN "CLOSED" ELSE "OPEN",
     lower |-> s \div 2,
     upper |-> (e + 1) \div 2,
     right |-> IF e % 2 = 0 THEN "CLOSED" ELSE "OPEN"]

RECURSIVE to_data_from(_, _)
to_data_from(x, a) ==
    IF a > 2 * MaxTime THEN <<>>
    ELSE IF a \in x
         THEN LET e == RunEnd(x, a) IN <<Atomic(a, e)>> \o to_data_from(x, e + 1)
         ELSE to_data_from(x, a + 1)

\* P.to_data(interval): the atomic intervals in ascending order; none for
\* the empty interval.
P_to_data(x) == to_data_from(x, 0)

\* ------------------------------------------------------ utils.py: builders
\* df_to_interval, mutated: half-open periods [begin, end).
df_to_interval_halfopen(df) ==
    UNION {P_closed(df[i].begin, df[i].end) \ {2 * df[i].end} : i \in 1..Len(df)}

\* df_to_interval, mutated: one interval from the earliest begin to the
\* latest end.
df_to_interval_hull(df) ==
    {a \in Atoms : \E i, j \in 1..Len(df) : 2 * df[i].begin <= a /\ a <= 2 * df[j].end}

\* df_to_interval(df): the union of P.closed(begin, end) over the rows.
df_to_interval(df) ==
    UNION {P_closed(df[i].begin, df[i].end) : i \in 1..Len(df)}

\* make_status_intervals(df): one interval set per status present in df.
make_status_intervals(df) ==
    [s \in {df[i].status : i \in 1..Len(df)} |->
        df_to_interval(SelectSeq(df, LAMBDA r : r.status = s))]

\* interval_to_df, mutated: the last atomic interval is not emitted.
interval_to_df_droplast(interval) ==
    LET d == P_to_data(interval)
    IN [i \in 1..(IF Len(d) = 0 THEN 0 ELSE Len(d) - 1) |->
           [begin |-> d[i].lower, end |-> d[i].upper]]

\* interval_to_df(interval): one row (begin, end) per atomic interval; the
\* bound types are discarded.
interval_to_df(interval) ==
    LET d == P_to_data(interval)
    IN [i \in 1..Len(d) |-> [begin |-> d[i].lower, end |-> d[i].upper]]

\* --------------------------------------------------- utils.py: reconciler
\* interval_merge_logic, mutated: P2 keeps the instants of P3.
interval_merge_logic_keepP3(l, o) ==
    LET P3 == l["P3"] \cup o["P3"]
        P2 == l["P2"] \cup o["P2"]
        P1 == o["P1"] \ (P2 \cup P3)
    IN [s \in {"P1", "P2", "P3"} |->
           IF s = "P1" THEN P1 ELSE IF s = "P2" THEN P2 ELSE P3]

\* interval_merge_logic, mutated: P1 is not cut by P3.
interval_merge_logic_P1overP3(l, o) ==
    LET P3 == l["P3"] \cup o["P3"]
        P2 == (l["P2"] \cup o["P2"]) \ P3
        P1 == o["P1"] \ P2
    IN [s \in {"P1", "P2", "P3"} |->
           IF s = "P1" THEN P1 ELSE IF s = "P2" THEN P2 ELSE P3]

\* interval_merge_logic, mutated: P3 is cut by P2 instead of P2 by P3.
interval_merge_logic_P2first(l, o) ==
    LET P2 == l["P2"] \cup o["P2"]
        P3 == (l["P3"] \cup o["P3"]) \ P2
        P1 == o["P1"] \ (P2 \cup P3)
    IN [s \in {"P1", "P2", "P3"} |->
           IF s = "P1" THEN P1 ELSE IF s = "P2" THEN P2 ELSE P3]

\* interval_merge_logic(lt, oo): P3, then P2 without P3, then the on/off
\* source's P1 without both.
interval_merge_logic(l, o) ==
    LET P3 == l["P3"] \cup o["P3"]
        P2 == (l["P2"] \cup o["P2"]) \ P3
        P1 == o["P1"] \ (P2 \cup P3)
    IN [s \in {"P1", "P2", "P3"} |->
           IF s = "P1" THEN P1 ELSE IF s = "P2" THEN P2 ELSE P3]

\* The status string, mutated: the bare label.
ConsistentStatus_bare(s) == s

\* f'{s} consistent'
ConsistentStatus(s) == s \o " consistent"

\* interval_to_df(i).assign(status=f'{s} consistent')
AssignStatus(df, s) ==
    [i \in 1..Len(df) |-> [begin |-> df[i].begin, end |-> df[i].end, status |-> s]]

\* pd.concat over intervals.items(): the rows of P1, then P2, then P3.
ConcatIntervals(intervals) ==
    AssignStatus(interval_to_df(intervals["P1"]), ConsistentStatus("P1"))
    \o AssignStatus(interval_to_df(intervals["P2"]), ConsistentStatus("P2"))
    \o AssignStatus(interval_to_df(intervals["P3"]), ConsistentStatus("P3"))

\* The loop of the P0_has_priority branch on one mapping d:
\* d[k] = d[k] - oo['P0'] for every key k other than 'P0'.
SubtractP0(d, p0) == [k \in DOMAIN d |-> IF k # "P0" THEN d[k] \ p0 ELSE d[k]]

\* The P0_has_priority branch, mutated: only the on/off mapping is treated.
P0Branch_onlyOO(st) ==
    IF "P0" \in DOMAIN st.oo
    THEN [st EXCEPT !.oo = SubtractP0(st.oo, st.oo["P0"])]
    ELSE IF (DOMAIN st.lt \cup DOMAIN st.oo) \ {"P0"} # {}
         THEN [st EXCEPT !.err = TRUE]
         ELSE st

\* The P0_has_priority branch: for d in [lt, oo].  A missing oo['P0'] raises
\* KeyError at the first key other than 'P0', before anything is assigned.
P0Branch(st) ==
    IF "P0" \in DOMAIN st.oo
    THEN [st EXCEPT !.lt = SubtractP0(st.lt, st.oo["P0"]),
                    !.oo = SubtractP0(st.oo, st.oo["P0"])]
    ELSE IF (DOMAIN st.lt \cup DOMAIN st.oo) \ {"P0"} # {}
         THEN [st EXCEPT !.err = TRUE]
         ELSE st

\* StepLtP2, mutated: a label the trip mapping lacks counts as the empty set.
StepLtP2_default(st) ==
    IF st.err THEN st
    ELSE LET get(k) == IF k \in DOMAIN st.lt THEN st.lt[k] ELSE {}
         IN [st EXCEPT !.lt = [k \in DOMAIN st.lt \cup {"P2", "P3"} |->
                                  IF k = "P2" THEN get("P2") \ get("P3") ELSE get(k)]]

\* lt['P2'] = lt['P2'] - lt['P3']
StepLtP2(st) ==
    IF st.err THEN st
    ELSE IF {"P2", "P3"} \subseteq DOMAIN st.lt
         THEN [st EXCEPT !.lt["P2"] = st.lt["P2"] \ st.lt["P3"]]
         ELSE [st EXCEPT !.err = TRUE]

\* StepOoP2, mutated: oo['P2'] = oo['P2'] - oo['P1']
StepOoP2_minusP1(st) ==
    IF st.err THEN st
    ELSE IF {"P1", "P2", "P3"} \subseteq DOMAIN st.oo
         THEN [st EXCEPT !.oo["P2"] = st.oo["P2"] \ st.oo["P1"]]
         ELSE [st EXCEPT !.err = TRUE]

\* oo['P2'] = oo['P2'] - oo['P3']
StepOoP2(st) ==
    IF st.err THEN st
    ELSE IF {"P2", "P3"} \subseteq DOMAIN st.oo
         THEN [st EXCEPT !.oo["P2"] = st.oo["P2"] \ st.oo["P3"]]
         ELSE [st EXCEPT !.err = TRUE]

\* oo['P1'] = oo['P1'] - (oo['P2'] | oo['P3'])
StepOoP1(st) ==
    IF st.err THEN st
    ELSE IF "P1" \in DOMAIN st.oo
         THEN [st EXCEPT !.oo["P1"] = st.oo["P1"] \ (st.oo["P2"] \cup st.oo["P3"])]
         ELSE [st EXCEPT !.err = TRUE]

\* main_interval_logic(lt, oo, P0_has_priority): the two mappings as the call
\* leaves them, the reconciled interval sets and the returned table; err
\* when a label lookup raised KeyError (no table is returned then).
main_interval_logic(l, o, P0_has_priority) ==
    LET s0 == [lt |-> l, oo |-> o, err |-> FALSE]
        s1 == IF P0_has_priority THEN P0Branch(s0) ELSE s0
        s4 == StepOoP1(StepOoP2(StepLtP2(s1)))
    IN IF s4.err
       THEN [lt |-> s4.lt, oo |-> s4.oo, err |-> TRUE,
             intervals |-> <<>>, table |-> <<>>]
       ELSE LET intervals == interval_merge_logic(s4.lt, s4.oo)
            IN [lt |-> s4.lt, oo |-> s4.oo, err |-> FALSE,
                intervals |-> intervals, table |-> ConcatIntervals(intervals)]

\* ------------------------------------------- utils.py: period constructor
\* The metadata function extra_info[i] applied to row r, as the lambdas of
\* load_lifetime_trips: a fixed status and values read from the row.
ApplyExtraInfo(d, r) == [status |-> d, file |-> r.file]

\* RowPeriods, mutated: every period begins at the first column.
RowPeriods_firstbegin(r, columns, extra_info) ==
    LET n == IF Len(extra_info) < Len(columns) - 1
             THEN Len(extra_info) ELSE Len(columns) - 1
    IN [i \in 1..n |->
           [begin |-> r[columns[1]], end |-> r[columns[i + 1]],
            info |-> ApplyExtraInfo(extra_info[i], r)]]

\* RowPeriods, mutated: the two timestamps of a period are put in order.
RowPeriods_ordered(r, columns, extra_info) ==
    LET n == IF Len(extra_info) < Len(columns) - 1
             THEN Len(extra_info) ELSE Len(columns) - 1
        b(i) == r[columns[i]]
        e(i) == r[columns[i + 1]]
    IN [i \in 1..n |->
           [begin |-> IF b(i) <= e(i) THEN b(i) ELSE e(i),
            end |-> IF b(i) <= e(i) THEN e(i) ELSE b(i),
            info |-> ApplyExtraInfo(extra_info[i], r)]]

\* The list the lambda of time_tuples_to_periods builds for one row r:
\* zip(columns, columns[1:], extra_info) stops at the shortest of the three.
RowPeriods(r, columns, extra_info) ==
    LET n == IF Len(extra_info) < Len(columns) - 1
             THEN Len(extra_info) ELSE Len(columns) - 1
    IN [i \in 1..n |->
           [begin |-> r[columns[i]], end |-> r[columns[i + 1]],
            info |-> ApplyExtraInfo(extra_info[i], r)]]

\* apply(..., axis=1).explode().to_list(): the rows' lists, one after another.
RECURSIVE Explode(_, _, _)
Explode(table, columns, extra_info) ==
    IF table = <<>> THEN <<>>
    ELSE Explode(SubSeq(table, 1, Len(table) - 1), columns, extra_info)
         \o RowPeriods(table[Len(table)], columns, extra_info)

\* time_tuples_to_periods, mutated: the assertion is gone.
time_tuples_to_periods_noassert(table, columns, extra_info) ==
    [err |-> FALSE, periods |-> Explode(table, columns, extra_info)]

\* time_tuples_to_periods(table, columns, extra_info): the assertion, then
\* the periods.  err stands for the AssertionError.
time_tuples_to_periods(table, columns, extra_info) ==
    IF Len(columns) # Len(extra_info) + 1
    THEN [err |-> TRUE, periods |-> <<>>]
    ELSE [err |-> FALSE, periods |-> Explode(table, columns, extra_info)]

\* ------------------------------------------------- tripmatch.py: matcher
\* date_in_interval(date, interval_begin, interval_end)
date_in_interval(date, interval_begin, interval_end) ==
    interval_begin <= date /\ date <= interval_end

\* The orders sort_values(by=['begin'], ascending=True) can give the rows of
\* df: every arrangement ascending in begin (the default sort is not stable,
\* rows with equal begin may come in any order).
SortedByBegin(df) ==
    {p \in [1..Len(df) -> 1..Len(df)] :
        /\ \A i, j \in 1..Len(df) : i # j => p[i] # p[j]
        /\ \A i, j \in 1..Len(df) : i < j => df[p[i]].begin <= df[p[j]].begin}

Reorder(df, p) == [i \in 1..Len(df) |-> df[p[i]]]

\* intervals_including_date, mutated: the end bound is exclusive.
intervals_including_date_openend(date, ids) ==
    SelectSeq(ids, LAMBDA r : r.begin <= date /\ date < r.end)

\* intervals_including_date(date, intervals_dataframe) once the table is
\* sorted into ids: the rows with begin <= date and date <= end, in the
\* order of ids.
intervals_including_date(date, ids) ==
    SelectSeq(ids, LAMBDA r : r.begin <= date /\ date <= r.end)

\* intervals_including_date_old, mutated: the scan ends at the first row
\* that does not contain the date.
RECURSIVE intervals_including_date_old_stopfirst(_, _)
intervals_including_date_old_stopfirst(date, ids) ==
    IF ids = <<>> THEN <<>>
    ELSE LET row == Head(ids)
         IN IF date_in_interval(date, row.begin, row.end)
            THEN <<row>> \o intervals_including_date_old_stopfirst(date, Tail(ids))
            ELSE <<>>

\* intervals_including_date_old(date, intervals_dataframe) once the table is
\* sorted into ids, its yields listed: a row containing the date is yielded,
\* a row beginning after the date ends the scan, any other row is passed.
RECURSIVE intervals_including_date_old(_, _)
intervals_including_date_old(date, ids) ==
    IF ids = <<>> THEN <<>>
    ELSE LET row == Head(ids)
         IN IF date_in_interval(date, row.begin, row.end)
            THEN <<row>> \o intervals_including_date_old(date, Tail(ids))
            ELSE IF date < row.begin
                 THEN <<>>
                 ELSE intervals_including_date_old(date, Tail(ids))

\* A single-result query returns a row or None: a list of one row, or none.
None == <<>>

\* next_interval_including_date, mutated: the row that begins after the date
\* is looked at but left in the generator.
RECURSIVE next_interval_including_date_peek(_, _, _)
next_interval_including_date_peek(date, rows, pos) ==
    IF pos >= Len(rows)
    THEN [ret |-> None, pos |-> pos, raised |-> FALSE]
    ELSE LET row == rows[pos + 1]
         IN IF date_in_interval(date, row.begin, row.end)
            THEN [ret |-> <<row>>, pos |-> pos + 1, raised |-> FALSE]
            ELSE IF date < row.begin
                 THEN [ret |-> None, pos |-> pos, raised |-> FALSE]
                 ELSE next_interval_including_date_peek(date, rows, pos + 1)

\* next_interval_including_date, mutated: StopIteration is not caught.
RECURSIVE next_interval_including_date_nocatch(_, _, _)
next_interval_including_date_nocatch(date, rows, pos) ==
    IF pos >= Len(rows)
    THEN [ret |-> None, pos |-> pos, raised |-> TRUE]
    ELSE LET row == rows[pos + 1]
         IN IF date_in_interval(date, row.begin, row.end)
            THEN [ret |-> <<row>>, pos |-> pos + 1, raised |-> FALSE]
            ELSE IF date < row.begin
                 THEN [ret |-> None, pos |-> pos + 1, raised |-> FALSE]
                 ELSE next_interval_including_date_nocatch(date, rows, pos + 1)

\* next_interval_including_date(date, intervals_generator), the generator
\* being the rows with pos of them already consumed: the row returned (or
\* None), the generator's position afterwards, and whether an exception
\* left the call (StopIteration is caught, the call then returns None).
RECURSIVE next_interval_including_date(_, _, _)
next_interval_including_date(date, rows, pos) ==
    IF pos >= Len(rows)
    THEN [ret |-> None, pos |-> pos, raised |-> FALSE]
    ELSE LET row == rows[pos + 1]
         IN IF date_in_interval(date, row.begin, row.end)
            THEN [ret |-> <<row>>, pos |-> pos + 1, raised |-> FALSE]
            ELSE IF date < row.begin
                 THEN [ret |-> None, pos |-> pos + 1, raised |-> FALSE]
                 ELSE next_interval_including_date(date, rows, pos + 1)

\* ------------------------------------------------- tripmatch.py: auditor
\* datlocated_rows_from_intervals(intervals_dataframe): for every row, in
\* the frame's order, its begin event and then its end event.
\* datlocated_rows_from_intervals, mutated: the end event carries the begin
\* location.
RECURSIVE datlocated_rows_from_intervals_beginloc(_)
datlocated_rows_from_intervals_beginloc(ids) ==
    IF ids = <<>> THEN <<>>
    ELSE LET row == ids[Len(ids)]
         IN datlocated_rows_from_intervals_beginloc(SubSeq(ids, 1, Len(ids) - 1))
            \o <<[date |-> row.begin, is_begin |-> TRUE,
                  lat |-> row.begin_lat, lng |-> row.begin_lng, row |-> row],
                 [date |-> row.end, row |-> row, is_begin |-> FALSE,
                  lat |-> row.begin_lat, lng |-> row.begin_lng]>>

RECURSIVE datlocated_rows_from_intervals(_)
datlocated_rows_from_intervals(ids) ==
    IF ids = <<>> THEN <<>>
    ELSE LET row == ids[Len(ids)]
         IN datlocated_rows_from_intervals(SubSeq(ids, 1, Len(ids) - 1))
            \o <<[date |-> row.begin, is_begin |-> TRUE,
                  lat |-> row.begin_lat, lng |-> row.begin_lng, row |-> row],
                 [date |-> row.end, row |-> row, is_begin |-> FALSE,
                  lat |-> row.end_lat, lng |-> row.end_lng]>>

\* The pairs match_dates_to_intervals yields for one event: one per row of
\* intervals_including_date(date, ...), in that generator's order.
DatlocMatches(datloc, ids) ==
    LET rows == intervals_including_date(datloc.date, ids)
    IN [k \in 1..Len(rows) |-> <<datloc, rows[k]>>]

RECURSIVE MatchesOfDatlocs(_, _)
MatchesOfDatlocs(datlocs, ids) ==
    IF datlocs = <<>> THEN <<>>
    ELSE MatchesOfDatlocs(SubSeq(datlocs, 1, Len(datlocs) - 1), ids)
         \o DatlocMatches(datlocs[Len(datlocs)], ids)

\* match_dates_to_intervals, mutated: only the first interval containing an
\* event is yielded.
match_dates_to_intervals_firstonly(dates_dataframe, ids) ==
    LET datlocs == datlocated_rows_from_intervals(dates_dataframe)
        first(d) == LET m == DatlocMatches(d, ids)
                    IN IF m = <<>> THEN <<>> ELSE <<m[1]>>
        F[n \in 0..Len(datlocs)] ==
            IF n = 0 THEN <<>> ELSE F[n - 1] \o first(datlocs[n])
    IN F[Len(datlocs)]

\* match_dates_to_intervals(dates_dataframe, intervals_dataframe), listed:
\* ids is intervals_dataframe in the order sort_values gives it.
match_dates_to_intervals(dates_dataframe, ids) ==
    MatchesOfDatlocs(datlocated_rows_from_intervals(dates_dataframe), ids)

\* interval_equals(series1, series2)
interval_equals(series1, series2) ==
    series1.begin = series2.begin /\ series1.end = series2.end

\* find_matching_iteration, mutated: the previous group is yielded whatever
\* its size.
find_matching_iteration_anysize(m, item) ==
    LET loc == item[1]
        trip == item[2]
        changed == m.match = None \/ ~interval_equals(m.match[1].trip, trip)
        group == IF changed THEN [trip |-> trip, locations |-> <<>>] ELSE m.match[1]
    IN IF changed /\ m.match # None
       THEN [count |-> m.count + 1, yielded |-> m.match, match |-> m.match,
             at_yield |-> TRUE]
       ELSE [count |-> m.count + 1, yielded |-> <<>>,
             match |-> <<[group EXCEPT !.locations = Append(@, loc)]>>,
             at_yield |-> FALSE]

\* The loop body of find_matching_date_locations on the local state m
\* (match, count) and the item (loc, trip) just read from the stream, up to
\* the point where the generator next hands control to its consumer: at
\* `yield match`, with the group yielded and match still the previous group
\* (at_yield), or else past the end of the body, with loc appended to the
\* group of trip.
find_matching_iteration(m, item) ==
    LET loc == item[1]
        trip == item[2]
        changed == m.match = None \/ ~interval_equals(m.match[1].trip, trip)
        group == IF changed THEN [trip |-> trip, locations |-> <<>>] ELSE m.match[1]
    IN IF changed /\ m.match # None /\ Len(m.match[1].locations) > 1
       THEN [count |-> m.count + 1, yielded |-> m.match, match |-> m.match,
             at_yield |-> TRUE]
       ELSE [count |-> m.count + 1, yielded |-> <<>>,
             match |-> <<[group EXCEPT !.locations = Append(@, loc)]>>,
             at_yield |-> FALSE]

\* The rest of the loop body once the consumer resumes the generator after
\* `yield match`: match = {'trip': trip, 'locations': []}, then loc is
\* appended.
find_matching_resume(m, item) ==
    [count |-> m.count,
     match |-> <<[trip |-> item[2], locations |-> <<item[1]>>]>>,
     at_yield |-> FALSE]

\* ------------------------------------ create_grand_dataframe.py: the join
\* df[start].view('int64'), df[end].view('int64') stored as the columns
\* start_unixts and end_unixts of the caller's frame: the same instants,
\* read as integers.
WithUnixts(df, start, end) ==
    [i \in 1..Len(df) |->
        [name |-> df[i].name, begin |-> df[i].begin, end |-> df[i].end,
         start_unixts |-> df[i][start], end_unixts |-> df[i][end]]]

\* The overlap test of the NCLS index: its intervals are half-open,
\* [start, end), so two intervals overlap when each starts before the other
\* ends.
ncls_overlap(start_a, end_a, start_b, end_b) ==
    start_a < end_b /\ start_b < end_a

\* NCLS(df1...).all_overlaps_both(df2...): the pairs (x1, x2) of a df2 index
\* and a df1 index whose intervals overlap, each pair once.
all_overlaps_both(df1, df2) ==
    {x \in (1..Len(df2)) \X (1..Len(df1)) :
        ncls_overlap(df1[x[2]].start_unixts, df1[x[2]].end_unixts,
                     df2[x[1]].start_unixts, df2[x[1]].end_unixts)}

\* A row of df1.join(df2, rsuffix='2') after start_unixts and end_unixts are
\* dropped: every column of df2 also names a column of df1 and gets the
\* suffix, so df2's two integer columns stay.
JoinedRow(r1, r2) ==
    [name |-> r1.name, begin |-> r1.begin, end |-> r1.end,
     name2 |-> r2.name, begin2 |-> r2.begin, end2 |-> r2.end,
     start_unixts2 |-> r2.start_unixts, end_unixts2 |-> r2.end_unixts]

\* merge_over_time_intervals2(df1, df2, start1, end1, start2, end2): the two
\* frames as the call leaves them (two columns added to each) and the rows
\* of the returned frame.
merge_over_time_intervals2(df1, df2, start1, end1, start2, end2) ==
    LET d1 == WithUnixts(df1, start1, end1)
        d2 == WithUnixts(df2, start2, end2)
    IN [df1 |-> d1, df2 |-> d2,
        df |-> {JoinedRow(d1[x[2]], d2[x[1]]) : x \in all_overlaps_both(d1, d2)}]

\* ------------------------- create_grand_dataframe.py: null-timestamp repair
\* A null timestamp (NaT): a value no instant equals.
NaT == 0 - 1

\* series.isnull() for one value.
isnull(x) == x = NaT

\* df[column].shift(-1): row i gets the value of row i + 1, the last row gets
\* a null.
Shift(df, column) ==
    [i \in 1..Len(df) |-> IF i < Len(df) THEN df[i + 1][column] ELSE NaT]

\* df[column] = values: the column is added to the frame or overwritten.
SetColumn(df, column, values) ==
    [i \in 1..Len(df) |->
        [c \in DOMAIN df[i] \cup {column} |->
            IF c = column THEN values[i] ELSE df[i][c]]]

\* df.drop([column], axis=1, inplace=True)
DropColumn(df, column) ==
    [i \in 1..Len(df) |-> [c \in DOMAIN df[i] \ {column} |-> df[i][c]]]

\* np.where(df[column].isnull(), df['rescue'], df[column])
WhereNullRescue(df, column) ==
    [i \in 1..Len(df) |->
        IF isnull(df[i][column]) THEN df[i]["rescue"] ELSE df[i][column]]

\* df.dropna(subset=subset): the rows with no null in the columns of subset,
\* in their order.
dropna(df, subset) ==
    SelectSeq(df, LAMBDA r : \A c \in subset : ~isnull(r[c]))

\* fix_end_timestamp, mutated: rescue is the row's own begin_timestamp.
fix_end_timestamp_ownbegin(df) ==
    LET d1 == SetColumn(df, "rescue",
                        [i \in 1..Len(df) |-> df[i]["begin_timestamp"]])
        d2 == SetColumn(d1, "end_timestamp", WhereNullRescue(d1, "end_timestamp"))
    IN DropColumn(d2, "rescue")

\* fix_end_timestamp(df): the frame as the call leaves it, which is also the
\* frame returned.
fix_end_timestamp(df) ==
    LET d1 == SetColumn(df, "rescue", Shift(df, "begin_timestamp"))
        d2 == SetColumn(d1, "end_timestamp", WhereNullRescue(d1, "end_timestamp"))
    IN DropColumn(d2, "rescue")

\* fix_trips_timestamp, mutated: rescue is the next row's value of the
\* column being repaired.
fix_trips_timestamp_samecolumn(df, column) ==
    LET d1 == SetColumn(df, "rescue", Shift(df, column))
        d2 == SetColumn(d1, column, WhereNullRescue(d1, column))
    IN DropColumn(d2, "rescue")

\* fix_trips_timestamp(df, column): the frame as the call leaves it, which is
\* also the frame returned.
fix_trips_timestamp(df, column) ==
    LET d1 == SetColumn(df, "rescue", Shift(df, "begintrip_timestamp_utc"))
        d2 == SetColumn(d1, column, WhereNullRescue(d1, column))
    IN DropColumn(d2, "rescue")

\* ------------------------------------------------------------------ state
VARIABLES
    lt,         \* the trip-source mapping (status -> interval set) the caller holds
    oo,         \* the on/off-source mapping the caller holds
    call,       \* the arguments of the latest main_interval_logic call, at entry
    ret,        \* what that call produced: intervals, table, err
    calls,      \* number of main_interval_logic calls made
    fresh,      \* the two mappings as make_status_intervals built them
    periods,    \* builder: the period table given to make_status_intervals
    partition,  \* builder: the mapping make_status_intervals returned
    flat,       \* builder: the partition flattened to (begin, end, status) rows
    rebuilt,    \* builder: make_status_intervals of the flattened rows
    stage,      \* builder: "input", "built", "flat" or "rebuilt"
    tt,         \* period constructor: arguments table, columns, extra_info
    tt_ret,     \* period constructor: done, err, periods
    query,      \* matcher: arguments date, intervals_dataframe
    found,      \* matcher: done, ids (the sorted table), rows (the generator's rows, listed)
    old,        \* matcher, early-exit scan: done, rows (the generator's rows, listed)
    cursor,     \* next-interval query: the generator, rows and number consumed
    nxt,        \* next-interval query: the latest call's date, entry position, result
    join,       \* overlap join: the caller's two tables df1, df2
    joined,     \* overlap join: done, df (the rows of the returned frame), given (the frames at entry)
    audit,      \* auditor: the tables on_off, lifetime_trips, the match stream, the number of items read
    match,      \* auditor: the generator's local match (None or trip, locations) and count, and whether it is suspended at its yield
    events,     \* point events: intervals_dataframe, done, rows (the generator's yields, listed)
    frame,      \* null repair: the frame the caller holds
    fixed,      \* null repair: done, fn, column, given (the frame at entry of the latest call)
    emitted     \* auditor: the groups the generator has yielded, and whether it ended

recVars == <<lt, oo, call, ret, calls, fresh>>
bldVars == <<periods, partition, flat, rebuilt, stage>>
ttVars == <<tt, tt_ret>>
qryVars == <<query, found, old>>
curVars == <<cursor, nxt>>
joinVars == <<join, joined>>
audVars == <<audit, match, emitted>>
datVars == <<events>>
fixVars == <<frame, fixed>>
vars == <<lt, oo, call, ret, calls, fresh, periods, partition, flat, rebuilt, stage,
          tt, tt_ret, query, found, old, cursor, nxt, join, joined,
          audit, match, emitted, events, frame, fixed>>

NoCall == [lt |-> <<>>, oo |-> <<>>, P0_has_priority |-> FALSE]
NoRet == [intervals |-> <<>>, table |-> <<>>, err |-> FALSE]

RecIdle ==
    /\ lt = <<>> /\ oo = <<>> /\ call = NoCall /\ ret = NoRet /\ calls = 0
    /\ fresh = [lt |-> <<>>, oo |-> <<>>]
BldIdle ==
    periods = <<>> /\ partition = <<>> /\ flat = <<>> /\ rebuilt = <<>>
    /\ stage = "idle"
TtIdle ==
    /\ tt = [table |-> <<>>, columns |-> <<>>, extra_info |-> <<>>]
    /\ tt_ret = [done |-> FALSE, err |-> FALSE, periods |-> <<>>]
QryIdle ==
    /\ query = [date |-> 0, intervals_dataframe |-> <<>>]
    /\ found = [done |-> FALSE, ids |-> <<>>, rows |-> <<>>]
    /\ old = [done |-> FALSE, rows |-> <<>>]
CurIdle ==
    /\ cursor = [rows |-> <<>>, pos |-> 0]
    /\ nxt = [done |-> FALSE, date |-> 0, from |-> 0, ret |-> <<>>, raised |-> FALSE]
JoinIdle ==
    /\ join = [df1 |-> <<>>, df2 |-> <<>>]
    /\ joined = [done |-> FALSE, df |-> {}, given |-> [df1 |-> <<>>, df2 |-> <<>>]]
DatIdle ==
    events = [intervals_dataframe |-> <<>>, done |-> FALSE, rows |-> <<>>]
FixIdle ==
    /\ frame = <<>>
    /\ fixed = [done |-> FALSE, fn |-> "", column |-> "", given |-> <<>>]
AudIdle ==
    /\ audit = [on_off |-> <<>>, lifetime_trips |-> <<>>, started |-> FALSE,
                stream |-> <<>>, pos |-> 0]
    /\ match = [match |-> <<>>, count |-> 0, at_yield |-> FALSE]
    /\ emitted = [groups |-> <<>>, ended |-> FALSE]

\* ------------------------------------------------- reconciler: the inputs
\* A source's period table holds one period per status of keys, in status
\* order: the period chosen by f where f gives one, else a period with
\* begin > end, which contributes no instant.
LabelSeq == <<"P0", "P1", "P2", "P3">>
SourceTable(src, keys, f) ==
    LET ks == SelectSeq(LabelSeq, LAMBDA k : k \in keys)
    IN [i \in 1..Len(ks) |->
           IF <<src, ks[i]>> \in DOMAIN f
           THEN [begin |-> f[<<src, ks[i]>>][1], end |-> f[<<src, ks[i]>>][2],
                 status |-> ks[i]]
           ELSE [begin |-> 1, end |-> 0, status |-> ks[i]]]

ValidPeriods == {p \in Times \X Times : p[1] <= p[2]}
LtKeySets == {{"P2", "P3"}, Labels}

\* The choices of at most MaxPeriods periods with begin <= end for the
\* statuses of the two sources.
PeriodChoices(ltKeys) ==
    UNION {[S -> ValidPeriods] :
             S \in {X \in SUBSET (({"lt"} \X ltKeys) \cup ({"oo"} \X Labels)) :
                       Cardinality(X) <= MaxPeriods}}

\* No partition is built yet.
InitReconcile ==
    /\ RecIdle
    /\ BldIdle /\ TtIdle /\ QryIdle /\ CurIdle /\ JoinIdle /\ AudIdle /\ DatIdle /\ FixIdle

\* ------------------------------------------------- reconciler: operations
\* The caller builds the two sources' partitions with make_status_intervals,
\* each from its period table.
MakeSourceIntervals ==
    /\ lt = <<>> /\ oo = <<>>
    /\ \E ltKeys \in LtKeySets :
         \E f \in PeriodChoices(ltKeys) :
           /\ lt' = make_status_intervals(SourceTable("lt", ltKeys, f))
           /\ oo' = make_status_intervals(SourceTable("oo", Labels, f))
    /\ fresh' = [lt |-> lt', oo |-> oo']
    /\ UNCHANGED <<call, ret, calls, bldVars, ttVars, qryVars, curVars, joinVars, audVars, datVars, fixVars>>

\* A call main_interval_logic(lt, oo, P0_has_priority) on the caller's two
\* mappings, which it modifies in place.
MainIntervalLogic(P0_has_priority) ==
    /\ oo # <<>>
    /\ calls = 0
    /\ \E r \in {main_interval_logic(lt, oo, P0_has_priority)} :
          /\ lt' = r.lt
          /\ oo' = r.oo
          /\ call' = [lt |-> lt, oo |-> oo, P0_has_priority |-> P0_has_priority]
          /\ ret' = [intervals |-> r.intervals, table |-> r.table, err |-> r.err]
    /\ calls' = calls + 1
    /\ UNCHANGED <<fresh, bldVars, ttVars, qryVars, curVars, joinVars, audVars, datVars, fixVars>>

Init == InitReconcile

Next ==
    \/ MakeSourceIntervals
    \/ MainIntervalLogic(FALSE)
    \/ MainIntervalLogic(TRUE)

Spec == Init /\ [][Next]_vars

\* --------------------------------------------- reconciler: repeated calls
\* A call main_interval_logic(lt, oo, P0_has_priority) on the two mappings
\* as the caller holds them, earlier calls included.
MainIntervalLogicAgain(P0_has_priority) ==
    /\ oo # <<>>
    /\ calls < MaxCalls
    /\ \E r \in {main_interval_logic(lt, oo, P0_has_priority)} :
          /\ lt' = r.lt
          /\ oo' = r.oo
          /\ call' = [lt |-> lt, oo |-> oo, P0_has_priority |-> P0_has_priority]
          /\ ret' = [intervals |-> r.intervals, table |-> r.table, err |-> r.err]
    /\ calls' = calls + 1
    /\ UNCHANGED <<fresh, bldVars, ttVars, qryVars, curVars, joinVars, audVars, datVars, fixVars>>

NextRerun ==
    \/ MakeSourceIntervals
    \/ MainIntervalLogicAgain(FALSE)
    \/ MainIntervalLogicAgain(TRUE)

SpecRerun == InitReconcile /\ [][NextRerun]_vars

\* ------------------------------------------ reconciler: absent statuses
\* Two periods that overlap, for any status of either source.
SparsePeriods == {<<0, 1>>, <<1, MaxTime>>}

\* The period tables of the two sources: at most one period per status, P2
\* and P3 for the trip source, any label for the on/off source; a status may
\* have no period at all.
SparseChoices ==
    UNION {[S -> SparsePeriods] :
             S \in SUBSET (({"lt"} \X {"P2", "P3"}) \cup ({"oo"} \X Labels))}

StatusesIn(src, f) == {k \in Labels : <<src, k>> \in DOMAIN f}

\* The caller has built the two partitions with make_status_intervals: a
\* status without a period is not a key of its mapping.
InitSparse ==
    /\ \E f \in SparseChoices :
         /\ lt = make_status_intervals(SourceTable("lt", StatusesIn("lt", f), f))
         /\ oo = make_status_intervals(SourceTable("oo", StatusesIn("oo", f), f))
    /\ fresh = [lt |-> lt, oo |-> oo]
    /\ call = NoCall /\ ret = NoRet /\ calls = 0
    /\ BldIdle /\ TtIdle /\ QryIdle /\ CurIdle /\ JoinIdle /\ AudIdle
    /\ DatIdle /\ FixIdle

\* A call main_interval_logic(lt, oo, P0_has_priority) on the two mappings,
\* whatever their keys.
MainIntervalLogicSparse(P0_has_priority) ==
    /\ calls = 0
    /\ \E r \in {main_interval_logic(lt, oo, P0_has_priority)} :
          /\ lt' = r.lt
          /\ oo' = r.oo
          /\ call' = [lt |-> lt, oo |-> oo, P0_has_priority |-> P0_has_priority]
          /\ ret' = [intervals |-> r.intervals, table |-> r.table, err |-> r.err]
    /\ calls' = calls + 1
    /\ UNCHANGED <<fresh, bldVars, ttVars, qryVars, curVars, joinVars, audVars, datVars, fixVars>>

NextSparse == MainIntervalLogicSparse(FALSE) \/ MainIntervalLogicSparse(TRUE)

SpecSparse == InitSparse /\ [][NextSparse]_vars

\* ---------------------------------------------------- builder: the inputs
BuildLabels == {"P2", "P3"}
PeriodRows == [begin : Times, end : Times, status : BuildLabels]

RECURSIVE TablesOver(_, _)
TablesOver(rows, n) ==
    IF n = 0 THEN {<<>>}
    ELSE LET shorter == TablesOver(rows, n - 1)
         IN shorter \cup {Append(t, r) : t \in {u \in shorter : Len(u) = n - 1},
                                         r \in rows}

InitBuild ==
    /\ periods \in {t \in TablesOver(PeriodRows, MaxRows) : Len(t) >= 1}
    /\ partition = <<>> /\ flat = <<>> /\ rebuilt = <<>>
    /\ stage = "input"
    /\ RecIdle /\ TtIdle /\ QryIdle /\ CurIdle /\ JoinIdle /\ AudIdle /\ DatIdle /\ FixIdle

\* --------------------------------------------------- builder: operations
\* df.status.unique(): the statuses in order of first appearance.
RECURSIVE Unique(_)
Unique(df) ==
    IF df = <<>> THEN <<>>
    ELSE LET r == Unique(SubSeq(df, 1, Len(df) - 1))
             s == df[Len(df)].status
         IN IF \E i \in 1..Len(r) : r[i] = s THEN r ELSE Append(r, s)

\* The partition as (begin, end, status) rows: interval_to_df of every
\* status's set with the status assigned, in the mapping's key order.
RECURSIVE FlattenPartition(_, _)
FlattenPartition(p, keys) ==
    IF keys = <<>> THEN <<>>
    ELSE FlattenPartition(p, SubSeq(keys, 1, Len(keys) - 1))
         \o AssignStatus(interval_to_df(p[keys[Len(keys)]]), keys[Len(keys)])

MakeStatusIntervals ==
    /\ stage = "input"
    /\ partition' = make_status_intervals(periods)
    /\ stage' = "built"
    /\ UNCHANGED <<periods, flat, rebuilt, recVars, ttVars, qryVars, curVars, joinVars, audVars, datVars, fixVars>>

Flatten ==
    /\ stage = "built"
    /\ flat' = FlattenPartition(partition, Unique(periods))
    /\ stage' = "flat"
    /\ UNCHANGED <<periods, partition, rebuilt, recVars, ttVars, qryVars, curVars, joinVars, audVars, datVars, fixVars>>

Rebuild ==
    /\ stage = "flat"
    /\ rebuilt' = make_status_intervals(flat)
    /\ stage' = "rebuilt"
    /\ UNCHANGED <<periods, partition, flat, recVars, ttVars, qryVars, curVars, joinVars, audVars, datVars, fixVars>>

NextBuild == MakeStatusIntervals \/ Flatten \/ Rebuild

SpecBuild == InitBuild /\ [][NextBuild]_vars

\* ----------------------------------------------- period constructor
ColumnNames == <<"request_ts", "begintrip_ts", "dropoff_ts">>
ExtraStatus == <<"P2", "P3">>

\* A row: one timestamp per column of cols, and the file it was read from.
\* The constructor copies timestamps and never compares them: the earliest
\* and the latest instant tell any two columns apart, in order or not.
TupleTimes == {0, MaxTime}
TupleRows(cols) ==
    {[c \in {cols[i] : i \in 1..Len(cols)} \cup {"file"} |->
         IF c = "file" THEN fl ELSE ts[c]] :
       ts \in [{cols[i] : i \in 1..Len(cols)} -> TupleTimes],
       fl \in {"a.csv", "b.csv"}}

InitPeriods ==
    /\ \E k \in 2..NumTimeColumns, n \in 1..(NumTimeColumns - 1) :
         LET cols == SubSeq(ColumnNames, 1, k)
         IN \E t \in {u \in TablesOver(TupleRows(cols), MaxRows) : Len(u) >= 1} :
              tt = [table |-> t, columns |-> cols,
                    extra_info |-> SubSeq(ExtraStatus, 1, n)]
    /\ tt_ret = [done |-> FALSE, err |-> FALSE, periods |-> <<>>]
    /\ RecIdle /\ BldIdle /\ QryIdle /\ CurIdle /\ JoinIdle /\ AudIdle /\ DatIdle /\ FixIdle

TimeTuplesToPeriods ==
    /\ ~tt_ret.done
    /\ LET r == time_tuples_to_periods(tt.table, tt.columns, tt.extra_info)
       IN tt_ret' = [done |-> TRUE, err |-> r.err, periods |-> r.periods]
    /\ UNCHANGED <<tt, recVars, bldVars, qryVars, curVars, joinVars, audVars, datVars, fixVars>>

NextPeriods == TimeTuplesToPeriods

SpecPeriods == InitPeriods /\ [][NextPeriods]_vars

\* ------------------------------------------------------------- matcher
\* Tables of named intervals: row i is named i.
RECURSIVE NamedTables(_)
NamedTables(n) ==
    IF n = 0 THEN {<<>>}
    ELSE LET shorter == NamedTables(n - 1)
         IN shorter \cup {Append(t, [name |-> n, begin |-> b, end |-> e]) :
                            t \in {u \in shorter : Len(u) = n - 1},
                            b \in Times, e \in Times}

IntervalTables == NamedTables(MaxRows)

InitMatch ==
    /\ \E d \in Times, t \in IntervalTables :
         query = [date |-> d, intervals_dataframe |-> t]
    /\ found = [done |-> FALSE, ids |-> <<>>, rows |-> <<>>]
    /\ old = [done |-> FALSE, rows |-> <<>>]
    /\ RecIdle /\ BldIdle /\ TtIdle /\ CurIdle /\ JoinIdle /\ AudIdle /\ DatIdle /\ FixIdle

IntervalsIncludingDate ==
    /\ ~found.done
    /\ \E p \in SortedByBegin(query.intervals_dataframe) :
         LET ids == Reorder(query.intervals_dataframe, p)
         IN found' = [done |-> TRUE, ids |-> ids,
                      rows |-> intervals_including_date(query.date, ids)]
    /\ UNCHANGED <<query, old, recVars, bldVars, ttVars, curVars, joinVars, audVars, datVars, fixVars>>

\* The early-exit scan on the same table and date: sort_values is a function
\* of the table, it arranges the rows as it did for the filter.
IntervalsIncludingDateOld ==
    /\ found.done /\ ~old.done
    /\ old' = [done |-> TRUE,
               rows |-> intervals_including_date_old(query.date, found.ids)]
    /\ UNCHANGED <<query, found, recVars, bldVars, ttVars, curVars, joinVars, audVars, datVars, fixVars>>

NextMatch == IntervalsIncludingDate \/ IntervalsIncludingDateOld

SpecMatch == InitMatch /\ [][NextMatch]_vars

\* ------------------------------------------------- next-interval query
\* A generator (iterrows) over a table of named intervals, nothing consumed.
InitCursor ==
    /\ \E t \in IntervalTables : cursor = [rows |-> t, pos |-> 0]
    /\ nxt = [done |-> FALSE, date |-> 0, from |-> 0, ret |-> None, raised |-> FALSE]
    /\ RecIdle /\ BldIdle /\ TtIdle /\ QryIdle /\ JoinIdle /\ AudIdle /\ DatIdle /\ FixIdle

\* A call next_interval_including_date(date, generator) on the generator as
\* earlier calls left it.
NextIntervalIncludingDate(date) ==
    /\ \E r \in {next_interval_including_date(date, cursor.rows, cursor.pos)} :
          /\ cursor' = [cursor EXCEPT !.pos = r.pos]
          /\ nxt' = [done |-> TRUE, date |-> date, from |-> cursor.pos,
                     ret |-> r.ret, raised |-> r.raised]
    /\ UNCHANGED <<recVars, bldVars, ttVars, qryVars, joinVars, audVars, datVars, fixVars>>

NextCursor == \E date \in Times : NextIntervalIncludingDate(date)

SpecCursor == InitCursor /\ [][NextCursor]_vars

\* ----------------------------------------------------------------- auditor
\* The auditor only compares instants: its tables hold periods with
\* begin <= end over the instants before MaxTime.
AuditPeriods == {p \in ValidPeriods : p[2] < MaxTime}

\* Tables of named periods with begin <= end and a location at each end:
\* row i is named i.
RECURSIVE LocatedTables(_)
LocatedTables(n) ==
    IF n = 0 THEN {<<>>}
    ELSE LET shorter == LocatedTables(n - 1)
         IN shorter \cup {Append(t, [name |-> n, begin |-> p[1], end |-> p[2],
                                      begin_lat |-> p[1], begin_lng |-> n,
                                      end_lat |-> p[2], end_lng |-> n]) :
                            t \in {u \in shorter : Len(u) = n - 1},
                            p \in AuditPeriods}

\* Tables of named periods with begin <= end: row i is named i.
RECURSIVE ValidTables(_)
ValidTables(n) ==
    IF n = 0 THEN {<<>>}
    ELSE LET shorter == ValidTables(n - 1)
         IN shorter \cup {Append(t, [name |-> n, begin |-> p[1], end |-> p[2]]) :
                            t \in {u \in shorter : Len(u) = n - 1},
                            p \in AuditPeriods}

\* find_matching_date_locations(on_off, lifetime_trips) is about to be
\* called: two tables of at least one row each, MaxRows + 1 rows at most
\* together.
InitAudit ==
    /\ \E t1 \in LocatedTables(MaxRows), t2 \in ValidTables(MaxRows) :
         /\ Len(t1) >= 1 /\ Len(t2) >= 1 /\ Len(t1) + Len(t2) <= MaxRows + 1
         /\ audit = [on_off |-> t1, lifetime_trips |-> t2, started |-> FALSE,
                     stream |-> <<>>, pos |-> 0]
    /\ match = [match |-> None, count |-> 0, at_yield |-> FALSE]
    /\ emitted = [groups |-> <<>>, ended |-> FALSE]
    /\ RecIdle /\ BldIdle /\ TtIdle /\ QryIdle /\ CurIdle /\ JoinIdle /\ DatIdle /\ FixIdle

\* The generator starts: match = None, count = 0, and the stream
\* match_dates_to_intervals(on_off, lifetime_trips) it will read, fixed by
\* the two tables and the order sort_values gives lifetime_trips.
FindMatchingDateLocations ==
    /\ ~audit.started
    /\ \E p \in SortedByBegin(audit.lifetime_trips) :
         audit' = [audit EXCEPT
                      !.started = TRUE,
                      !.stream = match_dates_to_intervals(
                                     audit.on_off, Reorder(audit.lifetime_trips, p))]
    /\ match' = [match |-> None, count |-> 0, at_yield |-> FALSE]
    /\ UNCHANGED <<emitted, recVars, bldVars, ttVars, qryVars, curVars, joinVars, datVars, fixVars>>

\* The for loop reads the next (loc, trip) of the stream and runs the body
\* until the generator yields or the body ends.
FindMatchingIteration ==
    /\ audit.started /\ ~emitted.ended /\ ~match.at_yield
    /\ audit.pos < Len(audit.stream)
    /\ \E r \in {find_matching_iteration(match, audit.stream[audit.pos + 1])} :
         /\ match' = [match |-> r.match, count |-> r.count, at_yield |-> r.at_yield]
         /\ emitted' = [emitted EXCEPT !.groups = @ \o r.yielded]
    /\ audit' = [audit EXCEPT !.pos = @ + 1]
    /\ UNCHANGED <<recVars, bldVars, ttVars, qryVars, curVars, joinVars, datVars, fixVars>>

\* The consumer resumes the generator suspended at its yield: the body ends
\* with the item read last.
FindMatchingResume ==
    /\ audit.started /\ match.at_yield
    /\ \E r \in {find_matching_resume(match, audit.stream[audit.pos])} :
         match' = [match |-> r.match, count |-> r.count, at_yield |-> r.at_yield]
    /\ UNCHANGED <<audit, emitted, recVars, bldVars, ttVars, qryVars, curVars, joinVars, datVars, fixVars>>

\* The stream is exhausted: the loop ends and the generator returns.
FindMatchingEnd ==
    /\ audit.started /\ ~emitted.ended /\ ~match.at_yield
    /\ audit.pos = Len(audit.stream)
    /\ emitted' = [emitted EXCEPT !.ended = TRUE]
    /\ UNCHANGED <<audit, match, recVars, bldVars, ttVars, qryVars, curVars, joinVars, datVars, fixVars>>

NextAudit ==
    \/ FindMatchingDateLocations
    \/ FindMatchingIteration
    \/ FindMatchingResume
    \/ FindMatchingEnd

SpecAudit == InitAudit /\ [][NextAudit]_vars

\* ----------------------------------------------------------- overlap join
\* Tables of named periods of positive length: row i is named i.
RECURSIVE PositiveTables(_)
PositiveTables(n) ==
    IF n = 0 THEN {<<>>}
    ELSE LET shorter == PositiveTables(n - 1)
         IN shorter \cup {Append(t, [name |-> n, begin |-> p[1], end |-> p[2]]) :
                            t \in {u \in shorter : Len(u) = n - 1},
                            p \in {q \in Times \X Times : q[1] < q[2]}}

\* Two tables of at least one row each, MaxRows + 1 rows at most together.
InitJoin ==
    /\ \E t1, t2 \in PositiveTables(MaxRows) :
         /\ Len(t1) >= 1 /\ Len(t2) >= 1 /\ Len(t1) + Len(t2) <= MaxRows + 1
         /\ join = [df1 |-> t1, df2 |-> t2]
    /\ joined = [done |-> FALSE, df |-> {}, given |-> [df1 |-> <<>>, df2 |-> <<>>]]
    /\ RecIdle /\ BldIdle /\ TtIdle /\ QryIdle /\ CurIdle /\ AudIdle /\ DatIdle /\ FixIdle

\* The call merge_over_time_intervals2(df1, df2, 'begin', 'end', 'begin',
\* 'end') on the caller's two frames.
MergeOverTimeIntervals2 ==
    /\ ~joined.done
    /\ \E r \in {merge_over_time_intervals2(join.df1, join.df2,
                                             "begin", "end", "begin", "end")} :
          /\ join' = [df1 |-> r.df1, df2 |-> r.df2]
          /\ joined' = [done |-> TRUE, df |-> r.df, given |-> join]
    /\ UNCHANGED <<recVars, bldVars, ttVars, qryVars, curVars, audVars, datVars, fixVars>>

NextJoin == MergeOverTimeIntervals2

SpecJoin == InitJoin /\ [][NextJoin]_vars

\* ----------------------------------------------------------- point events
\* Tables of named intervals with a location at each end, in any order and
\* with any bounds: row i is named i, and its four coordinates are its own.
RECURSIVE EventTables(_)
EventTables(n) ==
    IF n = 0 THEN {<<>>}
    ELSE LET shorter == EventTables(n - 1)
         IN shorter \cup {Append(t, [name |-> n, begin |-> b, end |-> e,
                                      begin_lat |-> 4 * n, begin_lng |-> 4 * n + 1,
                                      end_lat |-> 4 * n + 2, end_lng |-> 4 * n + 3]) :
                            t \in {u \in shorter : Len(u) = n - 1},
                            b \in Times, e \in Times}

InitEvents ==
    /\ \E t \in EventTables(MaxRows) :
         events = [intervals_dataframe |-> t, done |-> FALSE, rows |-> <<>>]
    /\ RecIdle /\ BldIdle /\ TtIdle /\ QryIdle /\ CurIdle /\ JoinIdle /\ AudIdle
    /\ FixIdle

\* The generator datlocated_rows_from_intervals(intervals_dataframe) read to
\* its end.
DatlocatedRowsFromIntervals ==
    /\ ~events.done
    /\ events' = [events EXCEPT
                     !.done = TRUE,
                     !.rows = datlocated_rows_from_intervals(events.intervals_dataframe)]
    /\ UNCHANGED <<recVars, bldVars, ttVars, qryVars, curVars, joinVars, audVars, fixVars>>

NextEvents == DatlocatedRowsFromIntervals

SpecEvents == InitEvents /\ [][NextEvents]_vars

\* ------------------------------------------------------------ null repair
\* The repair copies timestamps and tests them for null only: a null, the
\* earliest and the latest instant tell any two cells apart.
RepairTimes == {NaT, 0, MaxTime}

AppColumns == {"begin_timestamp", "end_timestamp"}
TripsColumns ==
    {"request_timestamp_utc", "begintrip_timestamp_utc", "dropoff_timestamp_utc"}

\* Frames with the timestamp columns cols and a column telling the rows
\* apart: row i is named i.
RECURSIVE RepairFrames(_, _)
RepairFrames(cols, n) ==
    IF n = 0 THEN {<<>>}
    ELSE LET shorter == RepairFrames(cols, n - 1)
         IN shorter \cup
            {Append(t, [c \in cols \cup {"name"} |->
                           IF c = "name" THEN n ELSE ts[c]]) :
               t \in {u \in shorter : Len(u) = n - 1},
               ts \in [cols -> RepairTimes]}

\* The caller holds the frame of application connections or the frame of
\* trips, of at least one row.
InitRepair ==
    /\ \E cols \in {AppColumns, TripsColumns} :
         \E t \in RepairFrames(cols, MaxRows) : Len(t) >= 1 /\ frame = t
    /\ fixed = [done |-> FALSE, fn |-> "", column |-> "", given |-> <<>>]
    /\ RecIdle /\ BldIdle /\ TtIdle /\ QryIdle /\ CurIdle /\ JoinIdle /\ AudIdle
    /\ DatIdle

\* df = fix_end_timestamp(df) on the frame of application connections: the
\* caller's frame is modified in place and returned.
FixEndTimestamp ==
    /\ frame # <<>> /\ AppColumns \subseteq DOMAIN frame[1]
    /\ frame' = fix_end_timestamp(frame)
    /\ fixed' = [done |-> TRUE, fn |-> "fix_end_timestamp", column |-> "end_timestamp",
                 given |-> frame]
    /\ UNCHANGED <<recVars, bldVars, ttVars, qryVars, curVars, joinVars, audVars, datVars>>

\* df = fix_trips_timestamp(df, column) on the frame of trips: the caller's
\* frame is modified in place and returned.
FixTripsTimestamp(column) ==
    /\ frame # <<>> /\ TripsColumns \subseteq DOMAIN frame[1]
    /\ frame' = fix_trips_timestamp(frame, column)
    /\ fixed' = [done |-> TRUE, fn |-> "fix_trips_timestamp", column |-> column,
                 given |-> frame]
    /\ UNCHANGED <<recVars, bldVars, ttVars, qryVars, curVars, joinVars, audVars, datVars>>

\* df = df.dropna(subset=['begin_timestamp', 'end_timestamp']) on the
\* repaired frame of application connections: the caller now holds the frame
\* of the rows with neither timestamp null.
DropNa ==
    /\ fixed.done /\ fixed.fn = "fix_end_timestamp"
    /\ frame' = dropna(frame, AppColumns)
    /\ fixed' = [done |-> TRUE, fn |-> "dropna", column |-> "", given |-> frame]
    /\ UNCHANGED <<recVars, bldVars, ttVars, qryVars, curVars, joinVars, audVars, datVars>>

NextRepair ==
    \/ FixEndTimestamp
    \/ DropNa
    \/ \E column \in TripsColumns : FixTripsTimestamp(column)

SpecRepair == InitRepair /\ [][NextRepair]_vars

\* ====================================================== reconciler claims
\* d[k], the empty set when the mapping has no key k.
SetOf(d, k) == IF k \in DOMAIN d THEN d[k] ELSE {}

\* A call has returned a table.
Returned == calls > 0 /\ ~ret.err

\* Two rows overlap as closed intervals (a shared boundary instant counts).
RowsOverlap(r1, r2) == r1.begin <= r2.end /\ r2.begin <= r1.end

\* C1 as stated: without P0 priority the reconciled sets are P3' = union of
\* both sources' P3, P2' = (union of both sources' P2) minus P3', P1' = (union
\* of both sources' P1) minus (P2' union P3').
C1_UnionOfBothSources ==
    (Returned /\ ~call.P0_has_priority) =>
        LET U(k) == SetOf(call.lt, k) \cup SetOf(call.oo, k)
        IN /\ ret.intervals["P3"] = U("P3")
           /\ ret.intervals["P2"] = U("P2") \ ret.intervals["P3"]
           /\ ret.intervals["P1"] =
                  U("P1") \ (ret.intervals["P2"] \cup ret.intervals["P3"])

\* C1 amended: P3' and P2' are built from the union over both sources, P1'
\* from the on/off source's P1 alone; the trip source's P1 is never read.
C1_P1FromOnOffOnly ==
    (Returned /\ ~call.P0_has_priority) =>
        LET U(k) == SetOf(call.lt, k) \cup SetOf(call.oo, k)
        IN /\ ret.intervals["P3"] = U("P3")
           /\ ret.intervals["P2"] = U("P2") \ ret.intervals["P3"]
           /\ ret.intervals["P1"] =
                  call.oo["P1"] \ (ret.intervals["P2"] \cup ret.intervals["P3"])

\* A call without P0 priority whose trip source holds P1 instants that no
\* reconciled set and no on/off P1 covers, next to an on/off P1 that is kept.
C1_Witness ==
    /\ Returned /\ ~call.P0_has_priority
    /\ SetOf(call.lt, "P1")
          \ (call.oo["P1"] \cup ret.intervals["P2"] \cup ret.intervals["P3"]) # {}
    /\ ret.intervals["P1"] # {}

\* C2 as stated: in either mode no row emitted under one label overlaps, as
\* a closed interval, a row emitted under another label.
C2_NoRowOverlap ==
    Returned =>
        \A i, j \in 1..Len(ret.table) :
            ret.table[i].status # ret.table[j].status
                => ~RowsOverlap(ret.table[i], ret.table[j])

\* C2 amended: in either mode the reconciled interval sets of distinct labels
\* share no instant, and rows emitted under distinct labels share at most one
\* instant, a boundary of both.
C2_RowsShareAtMostBoundary ==
    Returned =>
        /\ \A k1, k2 \in DOMAIN ret.intervals :
               k1 # k2 => ret.intervals[k1] \cap ret.intervals[k2] = {}
        /\ \A i, j \in 1..Len(ret.table) :
               (ret.table[i].status # ret.table[j].status
                  /\ RowsOverlap(ret.table[i], ret.table[j]))
                 => \/ ret.table[i].end = ret.table[j].begin
                    \/ ret.table[j].end = ret.table[i].begin

\* Rows of two labels that touch at a boundary instant.
C2_Witness ==
    /\ Returned
    /\ \E i, j \in 1..Len(ret.table) :
           /\ ret.table[i].status # ret.table[j].status
           /\ ret.table[i].end = ret.table[j].begin
           /\ ret.table[i].begin < ret.table[i].end

\* Instants and gaps some label of some source covers at entry of the call.
CoveredByAny ==
    UNION ({call.lt[k] : k \in DOMAIN call.lt} \cup {call.oo[k] : k \in DOMAIN call.oo})

\* Instants and gaps covered by the labels the cascade reads.
CoveredByRead ==
    call.lt["P2"] \cup call.lt["P3"]
    \cup call.oo["P1"] \cup call.oo["P2"] \cup call.oo["P3"]

LabelsCovering(a) == {k \in DOMAIN ret.intervals : a \in ret.intervals[k]}

\* C3 as stated: without P0 priority every instant covered by some label of
\* some source has exactly one output label, every other instant none.
C3_EveryCoveredInstantOnce ==
    (Returned /\ ~call.P0_has_priority) =>
        \A a \in Atoms :
            Cardinality(LabelsCovering(a)) = (IF a \in CoveredByAny THEN 1 ELSE 0)

\* C3 amended: without P0 priority every instant covered by the trip source's
\* P2 or P3 or by the on/off source's P1, P2 or P3 lies in exactly one
\* reconciled set; every other instant (covered by a P0 set or the trip
\* source's P1 only, or by nothing) lies in none.
C3_ReadLabelsCoveredOnce ==
    (Returned /\ ~call.P0_has_priority) =>
        \A a \in Atoms :
            Cardinality(LabelsCovering(a)) = (IF a \in CoveredByRead THEN 1 ELSE 0)

\* An instant the trip source labels P3 and the on/off source P1, next to
\* instants only the on/off P1 covers.
C3_Witness ==
    /\ Returned /\ ~call.P0_has_priority
    /\ call.lt["P3"] \cap call.oo["P1"] # {}
    /\ ret.intervals["P1"] # {}

\* C4: a trip-source P2 = [a,d] partly covered by an on/off P3 = [b,c]
\* (a < b <= c < d, nothing else) yields the P3 row [b,c] and the P2 rows
\* [a,b] and [c,d]; the boundary instants b and c belong to P3' only.
C4_TruncatedAtHigherBounds ==
    ( /\ Returned
      /\ call.lt["P3"] = {} /\ call.oo["P2"] = {} /\ call.oo["P1"] = {}
      /\ (call.P0_has_priority => call.oo["P0"] = {}) )
    =>  \A a, b, c, d \in Times :
            ( /\ a < b /\ b <= c /\ c < d
              /\ call.lt["P2"] = P_closed(a, d) /\ call.oo["P3"] = P_closed(b, c) )
            => /\ Len(ret.table) = 3
               /\ {ret.table[i] : i \in 1..3} =
                     {[begin |-> a, end |-> b, status |-> "P2 consistent"],
                      [begin |-> c, end |-> d, status |-> "P2 consistent"],
                      [begin |-> b, end |-> c, status |-> "P3 consistent"]}
               /\ {2 * b, 2 * c} \subseteq ret.intervals["P3"]
               /\ {2 * b, 2 * c} \cap ret.intervals["P2"] = {}

\* The call on P2 = [0,3] (trip source) and P3 = [1,2] (on/off source).
C4_Witness ==
    /\ Returned
    /\ call.lt["P2"] = P_closed(0, 3) /\ call.oo["P3"] = P_closed(1, 2)
    /\ call.lt["P3"] = {} /\ call.oo["P2"] = {} /\ call.oo["P1"] = {}
    /\ call.oo["P0"] = {}
    /\ Len(ret.table) = 3

\* The inputs with the on/off source's P0 taken out of every other label.
WithoutOnOffP0(d) ==
    [k \in DOMAIN d |-> IF k = "P0" THEN d[k] ELSE d[k] \ call.oo["P0"]]

\* C5: with P0 priority the table is the one the standard cascade returns on
\* inputs whose non-P0 labels, in both sources, have lost the on/off source's
\* P0; no reconciled set holds an instant of that P0; the trip source's own
\* P0 is left as it is and changes nothing.
C5_OnOffP0SubtractedFirst ==
    (Returned /\ call.P0_has_priority) =>
        /\ ret.table =
               main_interval_logic(WithoutOnOffP0(call.lt), WithoutOnOffP0(call.oo),
                                   FALSE).table
        /\ \A k \in DOMAIN ret.intervals : ret.intervals[k] \cap call.oo["P0"] = {}
        /\ "P0" \in DOMAIN call.lt =>
               /\ lt["P0"] = call.lt["P0"]
               /\ ret.table =
                      main_interval_logic([call.lt EXCEPT !["P0"] = {}], call.oo,
                                          TRUE).table

\* A P0-priority call whose on/off P0 cuts a part out of the trip source's P2.
C5_Witness ==
    /\ Returned /\ call.P0_has_priority
    /\ call.oo["P0"] \cap call.lt["P2"] # {}
    /\ ret.intervals["P2"] # {}

\* ========================================================= builder claims
\* The statuses of the period table.
StatusesOf(df) == {df[i].status : i \in 1..Len(df)}

\* Instants and gaps inside some period of status s, both ends included.
PeriodCover(df, s) ==
    {a \in Atoms : \E i \in 1..Len(df) :
        df[i].status = s /\ 2 * df[i].begin <= a /\ a <= 2 * df[i].end}

\* The member intervals are closed, ascending, and neither overlap nor touch.
MembersApart(interval) ==
    LET d == P_to_data(interval)
    IN /\ \A i \in 1..Len(d) : d[i].left = "CLOSED" /\ d[i].right = "CLOSED"
       /\ \A i, j \in 1..Len(d) : i < j => d[i].upper < d[j].lower

\* C6: for every status the built interval set covers exactly the union of
\* that status's periods, closed on both ends, and no two of its member
\* intervals overlap or touch ([a,b] and [b,c] become [a,c], a degenerate
\* [a,a] on a run's boundary is absorbed).
C6_MaximalRunsCoverPeriods ==
    stage # "input" =>
        /\ DOMAIN partition = StatusesOf(periods)
        /\ \A s \in DOMAIN partition :
               /\ partition[s] = PeriodCover(periods, s)
               /\ MembersApart(partition[s])

\* Two periods of one status that only touch, [a,b] and [b,c] with a < b < c
\* or a degenerate one on the other's boundary, built into a single member.
C6_Witness ==
    /\ stage = "built" /\ Len(periods) = 2
    /\ periods[1].status = periods[2].status
    /\ periods[1].begin <= periods[1].end /\ periods[2].begin <= periods[2].end
    /\ periods[2].end = periods[1].begin
    /\ periods[2].begin < periods[1].end
    /\ Len(P_to_data(partition[periods[1].status])) = 1

\* C7 as stated: flattening the built partition with interval_to_df and
\* building it again returns the same partition.
C7_RebuildReturnsSamePartition ==
    stage = "rebuilt" => rebuilt = partition

\* C7 amended: the rebuilt partition holds every status whose built set is
\* not empty, with the same set, and no other status; a status whose periods
\* all have begin > end is built as an empty set and is gone after the round
\* trip.
C7_RebuildKeepsNonEmptySets ==
    stage = "rebuilt" =>
        /\ DOMAIN rebuilt = {s \in DOMAIN partition : partition[s] # {}}
        /\ \A s \in DOMAIN rebuilt : rebuilt[s] = partition[s]

\* A round trip of a partition with a set of two members, from periods that
\* were not already apart.
C7_Witness ==
    /\ stage = "rebuilt"
    /\ \E s \in DOMAIN rebuilt :
           /\ rebuilt[s] = partition[s]
           /\ Len(P_to_data(partition[s])) = 2
    /\ Len(flat) = 2

\* ============================================== period constructor claims
\* C8: L rows, K time columns and K-1 metadata functions give L*(K-1)
\* periods; period i of row r (rows in input order) begins at column i, ends
\* at column i+1 and carries what metadata function i returns for r, so the
\* periods of a row are contiguous.
C8_PeriodsPerRowInOrder ==
    (tt_ret.done /\ ~tt_ret.err) =>
        LET L == Len(tt.table)
            K == Len(tt.columns)
            at(r, i) == tt_ret.periods[(r - 1) * (K - 1) + i]
        IN /\ Len(tt_ret.periods) = L * (K - 1)
           /\ \A r \in 1..L, i \in 1..(K - 1) :
                  /\ at(r, i).begin = tt.table[r][tt.columns[i]]
                  /\ at(r, i).end = tt.table[r][tt.columns[i + 1]]
                  /\ at(r, i).info =
                         [status |-> tt.extra_info[i], file |-> tt.table[r].file]
                  /\ i < K - 1 => at(r, i).end = at(r, i + 1).begin

\* Two different rows of three timestamps turned into four periods.
C8_Witness ==
    /\ tt_ret.done /\ ~tt_ret.err
    /\ Len(tt.table) = 2 /\ Len(tt.columns) = 3
    /\ tt.table[1] # tt.table[2]
    /\ tt.table[1]["request_ts"] # tt.table[1]["begintrip_ts"]
    /\ Len(tt_ret.periods) = 4

\* C9: when the number of metadata functions is not the number of time
\* columns minus one, the call fails with the assertion error and produces
\* no period.
C9_MismatchFailsBeforeRows ==
    (tt_ret.done /\ Len(tt.extra_info) # Len(tt.columns) - 1) =>
        tt_ret.err /\ tt_ret.periods = <<>>

\* A failed call on a table with rows and one metadata function too few.
C9_Witness ==
    /\ tt_ret.done /\ tt_ret.err
    /\ Len(tt.table) = 2
    /\ Len(tt.extra_info) = Len(tt.columns) - 2

\* ========================================================= matcher claims
\* C10: intervals_including_date returns exactly the rows with
\* begin <= date <= end, each once, in ascending order of begin whatever the
\* input order, and nothing when no row contains the date.
C10_ContainingRowsAscending ==
    found.done =>
        LET df == query.intervals_dataframe
            rows == found.rows
        IN /\ {rows[i] : i \in 1..Len(rows)} =
                  {df[i] : i \in {j \in 1..Len(df) :
                       df[j].begin <= query.date /\ query.date <= df[j].end}}
           /\ \A i, j \in 1..Len(rows) : i # j => rows[i].name # rows[j].name
           /\ \A i, j \in 1..Len(rows) : i < j => rows[i].begin <= rows[j].begin

\* Two rows given in descending order of begin, both containing the date, one
\* of them with the date as its end.
C10_Witness ==
    /\ found.done /\ Len(found.rows) = 2
    /\ query.intervals_dataframe[1].begin > query.intervals_dataframe[2].begin
    /\ query.intervals_dataframe[2].end = query.date
    /\ found.rows[1].name = 2

\* ============================================== next-interval query claims
\* The rows the generator still held at entry of the latest call ascend by
\* begin.
CursorAscending ==
    \A i, j \in (nxt.from + 1)..Len(cursor.rows) :
        i < j => cursor.rows[i].begin <= cursor.rows[j].begin

\* Positions, among those not consumed at entry, of the rows containing the
\* date, and of the rows beginning after it.
ContainingAhead ==
    {i \in (nxt.from + 1)..Len(cursor.rows) :
        cursor.rows[i].begin <= nxt.date /\ nxt.date <= cursor.rows[i].end}
BeginningLater ==
    {i \in (nxt.from + 1)..Len(cursor.rows) : nxt.date < cursor.rows[i].begin}

Least(S) == CHOOSE i \in S : \A j \in S : i <= j

\* C11: on a generator ascending by begin the call raises nothing; it
\* returns the first remaining row whose closed range contains the date and
\* stops there; when no remaining row contains the date it returns None,
\* stopped at the first row beginning after the date or at the generator's
\* end.
C11_FirstContainingOrNone ==
    (nxt.done /\ CursorAscending) =>
        /\ ~nxt.raised
        /\ ContainingAhead # {} =>
               /\ nxt.ret = <<cursor.rows[Least(ContainingAhead)]>>
               /\ cursor.pos = Least(ContainingAhead)
        /\ ContainingAhead = {} =>
               /\ nxt.ret = None
               /\ cursor.pos = IF BeginningLater # {} THEN Least(BeginningLater)
                                ELSE Len(cursor.rows)

\* A call on an ascending generator that passes a row ending before the date
\* and returns the next one, which ends on the date.
C11_Witness ==
    /\ nxt.done /\ CursorAscending /\ nxt.from = 0
    /\ Len(cursor.rows) = 2
    /\ cursor.rows[1].end < nxt.date
    /\ nxt.ret = <<cursor.rows[2]>>
    /\ cursor.rows[2].end = nxt.date

\* ===================================================== overlap join claims
\* C12: the returned frame has one row for every pair (i, j) of a df1 row
\* and a df2 row whose closed ranges share an instant, pairs that only touch
\* at a boundary included, and no other row.
C12_ClosedRangePairs ==
    joined.done =>
        {<<r.name, r.name2>> : r \in joined.df} =
            {x \in (1..Len(join.df1)) \X (1..Len(join.df2)) :
                RowsOverlap(join.df1[x[1]], join.df2[x[2]])}

\* ========================================================= auditor claims
\* The place of a stream item's event in emission order: the begin event of
\* row i is event 2i - 1, its end event is event 2i.
EventIndex(item) == 2 * item[1].row.name - (IF item[1].is_begin THEN 1 ELSE 0)

\* The item pairs an event of on_off with a row of lifetime_trips.
IsEventOfRow(datloc, row) ==
    \/ datloc = [date |-> row.begin, is_begin |-> TRUE,
                 lat |-> row.begin_lat, lng |-> row.begin_lng, row |-> row]
    \/ datloc = [date |-> row.end, is_begin |-> FALSE,
                 lat |-> row.end_lat, lng |-> row.end_lng, row |-> row]

\* C13: the stream holds, for every event and every lifetime_trips row
\* whose closed range contains the event's date, exactly one pair, and
\* nothing else; the pairs come in the events' emission order (rows of
\* on_off in input order, begin before end) and, for one event, in ascending
\* order of the intervals' begin.
C13_StreamPairsEveryContainingInterval ==
    audit.started =>
        LET st == audit.stream
            a == audit.on_off
            b == audit.lifetime_trips
        IN /\ \A k \in 1..Len(st) :
                  /\ \E i \in 1..Len(a) : IsEventOfRow(st[k][1], a[i])
                  /\ \E j \in 1..Len(b) : st[k][2] = b[j]
                  /\ st[k][2].begin <= st[k][1].date
                  /\ st[k][1].date <= st[k][2].end
           /\ \A i \in 1..Len(a), j \in 1..Len(b), is_begin \in BOOLEAN :
                  LET date == IF is_begin THEN a[i].begin ELSE a[i].end
                  IN Cardinality({k \in 1..Len(st) :
                                     /\ st[k][1].row = a[i]
                                     /\ st[k][1].is_begin = is_begin
                                     /\ st[k][2] = b[j]})
                       = (IF b[j].begin <= date /\ date <= b[j].end THEN 1 ELSE 0)
           /\ \A k, l \in 1..Len(st) :
                  k < l =>
                     /\ EventIndex(st[k]) <= EventIndex(st[l])
                     /\ EventIndex(st[k]) = EventIndex(st[l])
                            => st[k][2].begin <= st[l][2].begin

\* A row whose begin lies in no interval and whose end lies in two
\* overlapping ones, given in descending order of begin.
C13_Witness ==
    /\ audit.started
    /\ Len(audit.on_off) = 1 /\ Len(audit.lifetime_trips) = 2
    /\ audit.lifetime_trips[1].begin > audit.lifetime_trips[2].begin
    /\ Len(audit.stream) = 2
    /\ ~audit.stream[1][1].is_begin /\ ~audit.stream[2][1].is_begin
    /\ audit.stream[1][2].name = 2 /\ audit.stream[2][2].name = 1

\* The group g holds the stream item (loc, trip).
GroupHolds(g, item) ==
    /\ interval_equals(g.trip, item[2])
    /\ \E n \in 1..Len(g.locations) : g.locations[n] = item[1]

\* C14: once the generator has ended, the group it was accumulating has
\* been emitted, and every match of the stream is in some emitted group.
C14_FinalGroupEmitted ==
    emitted.ended =>
        /\ match.match # None =>
               \E n \in 1..Len(emitted.groups) : emitted.groups[n] = match.match[1]
        /\ \A k \in 1..Len(audit.stream) :
               \E n \in 1..Len(emitted.groups) :
                   GroupHolds(emitted.groups[n], audit.stream[k])

\* An iteration is about to read a match whose interval differs from the
\* accumulating group's.
IntervalChanges ==
    /\ audit.started /\ audit.pos < Len(audit.stream)
    /\ match.match # None
    /\ ~interval_equals(match.match[1].trip, audit.stream[audit.pos + 1][2])

\* C15 as stated: on every change of destination interval the group
\* accumulated for the previous interval is emitted, whatever its size.
C15_PreviousGroupEmittedAnySize ==
    [][(IntervalChanges /\ audit'.pos = audit.pos + 1)
          => emitted'.groups = Append(emitted.groups, match.match[1])]_vars

\* C15 amended: on a change of destination interval the previous group is
\* emitted when it holds more than one location and dropped when it holds
\* one; an iteration that stays on the same interval emits nothing, and
\* neither does a step that reads no match (the resumption after a yield).
C15_PreviousGroupEmittedWhenSeveral ==
    [][/\ (audit.started /\ audit'.pos = audit.pos + 1)
          => emitted'.groups =
                 IF IntervalChanges /\ Len(match.match[1].locations) > 1
                 THEN Append(emitted.groups, match.match[1])
                 ELSE emitted.groups
       /\ audit'.pos = audit.pos => emitted'.groups = emitted.groups]_vars

\* The interval has just changed after a group of one location: that group
\* is in no emitted group and no longer accumulating.
C15_Witness ==
    /\ audit.started /\ audit.pos = 2
    /\ ~interval_equals(audit.stream[1][2], audit.stream[2][2])
    /\ match.match[1].trip = audit.stream[2][2]
    /\ Len(match.match[1].locations) = 1
    /\ emitted.groups = <<>>

\* ================================================= invalid period claims
\* Instants and gaps inside some period of status s that has begin <= end.
ValidCover(df, s) ==
    {a \in Atoms : \E i \in 1..Len(df) :
        /\ df[i].status = s /\ df[i].begin <= df[i].end
        /\ 2 * df[i].begin <= a /\ a <= 2 * df[i].end}

\* The rows of df with begin > end.
InvalidRows(df) == {i \in 1..Len(df) : df[i].begin > df[i].end}

\* df without its row i.
WithoutRow(df, i) == SubSeq(df, 1, i - 1) \o SubSeq(df, i + 1, Len(df))

\* C16: the builder returns a partition for a table holding periods with
\* begin > end; such a period gives no instant to its status's set, which
\* covers exactly the periods of that status with begin <= end, merged into
\* members that neither overlap nor touch.
C16_InvalidPeriodContributesNothing ==
    (stage # "input" /\ InvalidRows(periods) # {}) =>
        \A s \in StatusesOf(periods) :
            /\ s \in DOMAIN partition
            /\ partition[s] = ValidCover(periods, s)
            /\ \A i \in InvalidRows(periods) :
                   \A a \in Atoms :
                       (2 * periods[i].end < a /\ a < 2 * periods[i].begin
                          /\ a \notin ValidCover(periods, s))
                         => a \notin partition[s]

\* A status built from a period [a,b] and a period with begin > end whose
\* bounds lie outside [a,b]: the set is [a,b].
C16_Witness ==
    /\ stage = "built" /\ Len(periods) = 2
    /\ periods[1].status = periods[2].status
    /\ periods[1].begin > periods[1].end
    /\ periods[2].begin < periods[2].end
    /\ periods[1].end > periods[2].end
    /\ partition[periods[1].status] = P_closed(periods[2].begin, periods[2].end)

\* C17 as stated: what the builder returns tells the periods excluded for
\* begin > end: the partition built from a table differs from the one
\* built from the same table without one of its excluded periods.
C17_ExcludedPeriodsInspectable ==
    stage # "input" =>
        \A i \in InvalidRows(periods) :
            StatusesOf(WithoutRow(periods, i)) = StatusesOf(periods)
                => make_status_intervals(WithoutRow(periods, i)) # partition

\* C17 amended: periods with begin > end are dropped silently: the
\* builder returns a mapping from status to interval set and nothing else,
\* equal to the one built from the table without any of those periods whose
\* status has another period; a status with such periods only is mapped to
\* the empty set.
C17_ExcludedPeriodsLeaveNoTrace ==
    stage # "input" =>
        /\ \A i \in InvalidRows(periods) :
               StatusesOf(WithoutRow(periods, i)) = StatusesOf(periods)
                   => make_status_intervals(WithoutRow(periods, i)) = partition
        /\ \A s \in StatusesOf(periods) :
               (\A i \in 1..Len(periods) :
                    periods[i].status = s => i \in InvalidRows(periods))
                 => partition[s] = {}

\* A partition built from a period with begin > end and a period of the
\* same status with begin <= end.
C17_Witness ==
    /\ stage = "built" /\ Len(periods) = 2
    /\ periods[1].status = periods[2].status
    /\ periods[2].begin > periods[2].end
    /\ periods[1].begin <= periods[1].end
    /\ partition = make_status_intervals(<<periods[1]>>)

\* ================================================== frame and rerun claims
\* C18: after a call, in either mode, every label of both source mappings
\* holds the interval set it held before the call.
C18_InputsUnchanged ==
    calls > 0 => (lt = call.lt /\ oo = call.oo)

\* C19: whatever calls were made before on the same two mappings, a call
\* returns the table a single call with the same P0_has_priority returns on
\* fresh copies of the mappings as built.
C19_SameTableAsOnFreshCopies ==
    Returned =>
        ret.table = main_interval_logic(fresh.lt, fresh.oo, call.P0_has_priority).table

\* =========================================================== status claims
\* The (begin, end) pairs of the table's rows of status st, and of the
\* member intervals of a reconciled set.
RowBoundsOf(table, st) ==
    {<<table[i].begin, table[i].end>> : i \in {j \in 1..Len(table) : table[j].status = st}}
MemberBoundsOf(interval) ==
    LET d == P_to_data(interval)
    IN {<<d[i].lower, d[i].upper>> : i \in 1..Len(d)}

\* C20: every row of the returned table has status 'P1 consistent',
\* 'P2 consistent' or 'P3 consistent'; the rows of status 'L consistent' are
\* the member intervals of the reconciled set of L, one row each; no row has
\* a P0 status.
C20_RowsLabelledByReconciledSet ==
    Returned =>
        /\ \A i \in 1..Len(ret.table) :
               ret.table[i].status \in {"P1 consistent", "P2 consistent", "P3 consistent"}
        /\ RowBoundsOf(ret.table, "P1 consistent") = MemberBoundsOf(ret.intervals["P1"])
        /\ RowBoundsOf(ret.table, "P2 consistent") = MemberBoundsOf(ret.intervals["P2"])
        /\ RowBoundsOf(ret.table, "P3 consistent") = MemberBoundsOf(ret.intervals["P3"])
        /\ Len(ret.table) = Len(P_to_data(ret.intervals["P1"]))
                             + Len(P_to_data(ret.intervals["P2"]))
                             + Len(P_to_data(ret.intervals["P3"]))

\* A table of two P1 rows around a P3 row: the on/off source's P1 cut by a P3.
C20_Witness ==
    /\ Returned
    /\ Len(ret.table) = 3
    /\ ret.table[1].status = "P1 consistent"
    /\ ret.table[2].status = "P1 consistent"
    /\ ret.table[3].status = "P3 consistent"
    /\ ret.table[1].end = ret.table[3].begin

\* ======================================================== cursor claims
\* The row at position i stops a scan for date: it contains the date or
\* begins after it.
StopsScan(date, i) ==
    \/ date_in_interval(date, cursor.rows[i].begin, cursor.rows[i].end)
    \/ date < cursor.rows[i].begin

\* C21: a call starts at the generator's current position and only moves
\* it forward; it consumes the rows it examines, the row at which it stops
\* included (a row containing the date, or the row beginning after the date
\* that makes it return None), and examines nothing beyond; a row it
\* returns lies after the entry position, so a row consumed by an earlier
\* call is never returned, even when it contains the date.
C21_ForwardOnlyCursor ==
    [][(nxt'.done /\ nxt' # nxt) =>
          /\ nxt'.from = cursor.pos
          /\ cursor'.rows = cursor.rows
          /\ cursor.pos <= cursor'.pos
          /\ \A i \in (cursor.pos + 1)..(cursor'.pos - 1) : ~StopsScan(nxt'.date, i)
          /\ \/ cursor'.pos > cursor.pos /\ StopsScan(nxt'.date, cursor'.pos)
             \/ cursor'.pos = Len(cursor.rows) /\ nxt'.ret = None
          /\ nxt'.ret # None =>
                 /\ nxt'.ret = <<cursor.rows[cursor'.pos]>>
                 /\ nxt'.ret[1].name > cursor.pos
          /\ \A i \in 1..cursor.pos :
                 date_in_interval(nxt'.date, cursor.rows[i].begin, cursor.rows[i].end)
                    => nxt'.ret # <<cursor.rows[i]>>]_vars

\* A call made after the first row was consumed, for a date that row
\* contains: the call returns None at the end of the generator.
C21_Witness ==
    /\ nxt.done /\ nxt.from = 1 /\ Len(cursor.rows) = 2
    /\ date_in_interval(nxt.date, cursor.rows[1].begin, cursor.rows[1].end)
    /\ nxt.date > cursor.rows[2].end
    /\ nxt.ret = None /\ cursor.pos = 2

\* ============================================ early-exit scan claims
\* C23: on the same table and date the early-exit scan
\* (intervals_including_date_old) yields the same rows in the same order as
\* the filter (intervals_including_date): the early exit drops no row that
\* contains the date.
C23_OldScanEqualsFilter ==
    old.done => old.rows = found.rows

\* The scan passes a row that ended before the date, yields a containing
\* row, and the table was given in descending order of begin.
C23_Witness ==
    /\ old.done /\ Len(found.ids) = 2 /\ Len(old.rows) = 1
    /\ found.ids[1].end < query.date
    /\ old.rows[1] = found.ids[2]
    /\ query.intervals_dataframe[1].begin > query.intervals_dataframe[2].begin

\* ================================================== grouping claims
\* The positions of the stream read so far whose interval is the trip
\* (equal begin and equal end).
ReadMatchesOf(trip) ==
    {i \in 1..audit.pos : interval_equals(audit.stream[i][2], trip)}

\* C22: every point event matched to a destination interval is in the one
\* group of that interval: the group being built holds every event read so
\* far that was matched to its interval, matches to other intervals read in
\* between notwithstanding.
C22_OneGroupPerInterval ==
    match.match # None =>
        Len(match.match[1].locations) =
            Cardinality(ReadMatchesOf(match.match[1].trip))

\* ================================================ join frame claims
\* C27: the call leaves its two input frames as they were given: the same
\* columns and the same values.
C27_JoinInputsUnchanged ==
    joined.done => join = joined.given

\* ============================================== point event claims
\* C24: the generator yields two events per row of the table, in the
\* table's own row order: for row i the begin event (date = begin,
\* is_begin = True, the begin location) and then the end event (date = end,
\* is_begin = False, the end location), each holding its source row.
C24_TwoEventsPerRowInInputOrder ==
    events.done =>
        LET df == events.intervals_dataframe
            ev == events.rows
        IN /\ Len(ev) = 2 * Len(df)
           /\ \A i \in 1..Len(df) :
                  /\ ev[2 * i - 1].row = df[i]
                  /\ ev[2 * i - 1].is_begin
                  /\ ev[2 * i - 1].date = df[i].begin
                  /\ ev[2 * i - 1].lat = df[i].begin_lat
                  /\ ev[2 * i - 1].lng = df[i].begin_lng
                  /\ ev[2 * i].row = df[i]
                  /\ ~ev[2 * i].is_begin
                  /\ ev[2 * i].date = df[i].end
                  /\ ev[2 * i].lat = df[i].end_lat
                  /\ ev[2 * i].lng = df[i].end_lng
                  /\ DOMAIN ev[2 * i - 1] = {"date", "is_begin", "lat", "lng", "row"}
                  /\ DOMAIN ev[2 * i] = {"date", "is_begin", "lat", "lng", "row"}

\* Two rows given in descending order of begin: the events keep that order.
C24_Witness ==
    /\ events.done /\ Len(events.intervals_dataframe) = 2
    /\ events.intervals_dataframe[1].begin > events.intervals_dataframe[2].end
    /\ Len(events.rows) = 4
    /\ events.rows[1].date > events.rows[4].date

\* ====================================== period constructor: ordering
\* The rows and columns (r, i) of the table where the timestamp of column i
\* is later than that of column i + 1.
OutOfOrder ==
    {x \in (1..Len(tt.table)) \X (1..(Len(tt.columns) - 1)) :
        tt.table[x[1]][tt.columns[x[2]]] > tt.table[x[1]][tt.columns[x[2] + 1]]}

\* C25: a call with as many metadata functions as periods per row never
\* fails, whatever the order of the timestamps; a row with the timestamp of
\* column i later than that of column i + 1 gives a period with begin > end
\* at its place, and every other period, of that row or of another, is what
\* its own two columns give: none is dropped, moved or altered.
C25_OutOfOrderKeptSilently ==
    (tt_ret.done /\ Len(tt.columns) = Len(tt.extra_info) + 1) =>
        LET K == Len(tt.columns)
            at(r, i) == tt_ret.periods[(r - 1) * (K - 1) + i]
        IN /\ ~tt_ret.err
           /\ Len(tt_ret.periods) = Len(tt.table) * (K - 1)
           /\ \A x \in OutOfOrder :
                  /\ at(x[1], x[2]).begin > at(x[1], x[2]).end
                  /\ \A r \in 1..Len(tt.table), i \in 1..(K - 1) :
                         <<r, i>> # x =>
                            /\ at(r, i).begin = tt.table[r][tt.columns[i]]
                            /\ at(r, i).end = tt.table[r][tt.columns[i + 1]]
                            /\ (<<r, i>> \in OutOfOrder) = (at(r, i).begin > at(r, i).end)

\* A row whose second timestamp is later than its third, after a first
\* period in order, next to a row in order.
C25_Witness ==
    /\ tt_ret.done /\ ~tt_ret.err
    /\ Len(tt.table) = 2 /\ Len(tt.columns) = 3
    /\ OutOfOrder = {<<1, 2>>}
    /\ tt_ret.periods[2].begin > tt_ret.periods[2].end
    /\ tt_ret.periods[1].begin < tt_ret.periods[1].end
    /\ tt_ret.periods[3].begin < tt_ret.periods[3].end

\* ================================================== null repair claims
\* The cell of column c in the row after row i of the frame given to the
\* latest call, a null when row i is the last.
NextRowCell(i, c) ==
    IF i < Len(fixed.given) THEN fixed.given[i + 1][c] ELSE NaT

\* C26: fix_end_timestamp gives every null end_timestamp the begin_timestamp
\* of the row right after it and changes nothing else: the rows, their order
\* and their columns are the same, begin timestamps and non-null end
\* timestamps keep their values, and a null end stays null in the last row
\* and before a row whose begin is null.
C26_NullEndTakesNextBegin ==
    (fixed.done /\ fixed.fn = "fix_end_timestamp") =>
        /\ Len(frame) = Len(fixed.given)
        /\ \A i \in 1..Len(frame) :
              /\ DOMAIN frame[i] = DOMAIN fixed.given[i]
              /\ \A c \in DOMAIN frame[i] \ {"end_timestamp"} :
                     frame[i][c] = fixed.given[i][c]
              /\ ~isnull(fixed.given[i]["end_timestamp"]) =>
                     frame[i]["end_timestamp"] = fixed.given[i]["end_timestamp"]
              /\ isnull(fixed.given[i]["end_timestamp"]) =>
                     frame[i]["end_timestamp"] = NextRowCell(i, "begin_timestamp")
              /\ (isnull(fixed.given[i]["end_timestamp"])
                    /\ (i = Len(frame) \/ isnull(fixed.given[i + 1]["begin_timestamp"])))
                     => isnull(frame[i]["end_timestamp"])

\* A frame of two rows with both ends null: the first end is filled from
\* the second row's begin, the last stays null.
C26_Witness ==
    /\ fixed.done /\ fixed.fn = "fix_end_timestamp"
    /\ Len(fixed.given) = 2
    /\ isnull(fixed.given[1]["end_timestamp"]) /\ isnull(fixed.given[2]["end_timestamp"])
    /\ fixed.given[1]["begin_timestamp"] = 0
    /\ frame[1]["end_timestamp"] = MaxTime
    /\ isnull(frame[2]["end_timestamp"])

\* C30: fix_trips_timestamp(df, column) gives every null of the column the
\* begintrip_timestamp_utc of the row right after it, whatever the column: a
\* null dropoff_timestamp_utc gets the next row's begin-trip timestamp, not
\* its dropoff timestamp; non-null values and the other columns keep their
\* values, and a null in the last row stays null.
C30_NullTakesNextBeginTrip ==
    (fixed.done /\ fixed.fn = "fix_trips_timestamp") =>
        /\ Len(frame) = Len(fixed.given)
        /\ \A i \in 1..Len(frame) :
              /\ DOMAIN frame[i] = DOMAIN fixed.given[i]
              /\ \A c \in DOMAIN frame[i] \ {fixed.column} :
                     frame[i][c] = fixed.given[i][c]
              /\ frame[i][fixed.column] =
                     IF isnull(fixed.given[i][fixed.column])
                     THEN NextRowCell(i, "begintrip_timestamp_utc")
                     ELSE fixed.given[i][fixed.column]
        /\ isnull(fixed.given[Len(frame)][fixed.column])
               => isnull(frame[Len(frame)][fixed.column])

\* A null dropoff before a row whose begin-trip and dropoff timestamps
\* differ: it gets the begin-trip timestamp.
C30_Witness ==
    /\ fixed.done /\ fixed.fn = "fix_trips_timestamp"
    /\ fixed.column = "dropoff_timestamp_utc"
    /\ Len(fixed.given) = 2
    /\ isnull(fixed.given[1]["dropoff_timestamp_utc"])
    /\ fixed.given[2]["begintrip_timestamp_utc"] = 0
    /\ fixed.given[2]["dropoff_timestamp_utc"] = MaxTime
    /\ frame[1]["dropoff_timestamp_utc"] = 0

\* ========================================= reconciler: pre-subtractions
\* C28: without P0 priority the call returns, for every label, the interval
\* set interval_merge_logic gives on the two mappings as they were passed:
\* the subtractions made inside each source beforehand change nothing in
\* the result.
C28_PreSubtractionsChangeNothing ==
    (calls = 1 /\ ~call.P0_has_priority /\ ~ret.err) =>
        ret.intervals = interval_merge_logic(call.lt, call.oo)

\* A call whose subtraction changed P2 of the trip source, with P2 and P3
\* both present in the result.
C28_Witness ==
    /\ calls = 1 /\ ~call.P0_has_priority /\ ~ret.err
    /\ lt["P2"] # call.lt["P2"]
    /\ ret.intervals["P2"] # {} /\ ret.intervals["P3"] # {}

\* ======================================== reconciler: absent statuses
\* A label the latest call needs is not a key of the mapping it reads it
\* from: P2 or P3 of the trip source, P1, P2 or P3 of the on/off source, P0
\* of the on/off source with P0 priority.
RequiredLabelMissing ==
    \/ ~({"P2", "P3"} \subseteq DOMAIN call.lt)
    \/ ~({"P1", "P2", "P3"} \subseteq DOMAIN call.oo)
    \/ call.P0_has_priority /\ "P0" \notin DOMAIN call.oo

\* C29: a call on partitions built by make_status_intervals fails with the
\* lookup error exactly when a label it needs is absent, a status without
\* period being absent rather than empty; a failed call returns no table.
C29_MissingLabelRaises ==
    calls = 1 =>
        /\ ret.err = RequiredLabelMissing
        /\ ret.err => (ret.table = <<>> /\ ret.intervals = <<>>)

\* The on/off source had no P1 period: a call with P0 priority failed after
\* it had taken P0 out of the trip source's P2.
C29_Witness ==
    /\ calls = 1 /\ call.P0_has_priority /\ ret.err
    /\ DOMAIN call.lt = {"P2", "P3"}
    /\ DOMAIN call.oo = {"P0", "P2", "P3"}
    /\ lt["P2"] # call.lt["P2"]
    /\ ret.table = <<>>

====
